---- MODULE Spec2Model ----
(***************************************************************************)
(* Model of the fullMoonFrontEnd analytics code: the App component state,  *)
(* the per-city statistics that StatisticsPanel, DistributionAnalysis,     *)
(* GeographicalInsights, ComparisonChart and App each compute for          *)
(* themselves, the weekday aggregation of TimeAnalysis and the moon-phase  *)
(* classifiers.                                                            *)
(*                                                                         *)
(* JavaScript numbers are modelled as exact rationals extended with NaN    *)
(* and +/-Infinity: [k, n, d] with k in {"fin", "NaN", "Infinity"}.        *)
(* Moon phases are integers in millionths (0.125 is 125000) and p-values   *)
(* integers in thousandths (0.05 is 50); both are only ever compared with  *)
(* decimal literals in the code.  Dates are day numbers, day 0 being       *)
(* Sunday 2023-01-01.                                                      *)
(***************************************************************************)
EXTENDS Integers, Sequences, FiniteSets, TLC

VARIABLES
    data,            \* App: useState<CombinedData | null>
    selectedCity,    \* App: useState('CHICAGO')
    scrollProgress,  \* App: useState(0)
    fetchPc,         \* position of the fetchData effect
    phase,           \* argument of a classifier call
    phaseName,       \* result of getMoonPhaseName(phase)
    phaseEmoji,      \* result of getMoonPhaseEmoji(phase)
    app,             \* what App computed in its last render
    geo,             \* what GeographicalInsights computed
    stats,           \* what StatisticsPanel computed
    dist,            \* what DistributionAnalysis computed
    cmp,             \* what ComparisonChart computed
    time,            \* what TimeAnalysis computed
    currentPhase,    \* App: getMoonPhase(scrollProgress) of the last render
    root             \* the React root: "mounted" or "unmounted"

vars == <<data, selectedCity, scrollProgress, fetchPc, phase, phaseName,
          phaseEmoji, app, geo, stats, dist, cmp, time, currentPhase, root>>

appVars == <<data, selectedCity, scrollProgress, fetchPc>>
phaseVars == <<phase, phaseName, phaseEmoji>>
viewVars == <<app, geo, stats, dist, cmp, time, currentPhase, root>>

----------------------------------------------------------------------------
(* JavaScript number arithmetic *)

RECURSIVE gcd(_, _)
gcd(a, b) == IF b = 0 THEN a ELSE gcd(b, a % b)

Abs(x) == IF x < 0 THEN -x ELSE x

Fin(n, d) ==
    LET g == gcd(Abs(n), Abs(d))
        s == IF d < 0 THEN -1 ELSE 1
    IN  [k |-> "fin", n |-> (s * n) \div g, d |-> (s * d) \div g]

Num(i) == [k |-> "fin", n |-> i, d |-> 1]

NaN == [k |-> "NaN", n |-> 0, d |-> 1]

Infinity(sign) == [k |-> "Infinity", n |-> sign, d |-> 1]

Sign(a) == IF a.n > 0 THEN 1 ELSE IF a.n < 0 THEN -1 ELSE 0

IsFinite(a) == a.k = "fin"

\* a + b
JsAdd(a, b) ==
    IF a.k = "NaN" \/ b.k = "NaN" THEN NaN
    ELSE IF a.k = "Infinity" /\ b.k = "Infinity"
         THEN IF a.n = b.n THEN a ELSE NaN
    ELSE IF a.k = "Infinity" THEN a
    ELSE IF b.k = "Infinity" THEN b
    ELSE Fin(a.n * b.d + b.n * a.d, a.d * b.d)

JsNeg(a) == IF a.k = "NaN" THEN NaN ELSE [a EXCEPT !.n = -a.n]

\* a - b
JsSub(a, b) == JsAdd(a, JsNeg(b))

\* a * b
JsMul(a, b) ==
    IF a.k = "NaN" \/ b.k = "NaN" THEN NaN
    ELSE IF a.k = "Infinity" \/ b.k = "Infinity"
         THEN IF Sign(a) = 0 \/ Sign(b) = 0 THEN NaN
              ELSE Infinity(Sign(a) * Sign(b))
    ELSE Fin(a.n * b.n, a.d * b.d)

\* a / b (a zero divisor is +0: counts and lengths are never negative)
JsDiv(a, b) ==
    IF a.k = "NaN" \/ b.k = "NaN" THEN NaN
    ELSE IF a.k = "Infinity"
         THEN IF b.k = "Infinity" THEN NaN
              ELSE Infinity(a.n * (IF b.n < 0 THEN -1 ELSE 1))
    ELSE IF b.k = "Infinity" THEN Num(0)
    ELSE IF b.n = 0
         THEN IF a.n = 0 THEN NaN ELSE Infinity(Sign(a))
    ELSE Fin(a.n * b.d, a.d * b.n)

\* a < b
JsLt(a, b) ==
    IF a.k = "NaN" \/ b.k = "NaN" THEN FALSE
    ELSE IF a.k = "Infinity" THEN a.n < 0 /\ ~(b.k = "Infinity" /\ b.n < 0)
    ELSE IF b.k = "Infinity" THEN b.n > 0
    ELSE a.n * b.d < b.n * a.d

\* a > b
JsGt(a, b) == JsLt(b, a)

\* Math.max(a, b), Math.min(a, b)
MathMax(a, b) ==
    IF a.k = "NaN" \/ b.k = "NaN" THEN NaN ELSE IF JsLt(a, b) THEN b ELSE a

MathMin(a, b) ==
    IF a.k = "NaN" \/ b.k = "NaN" THEN NaN ELSE IF JsLt(b, a) THEN b ELSE a

\* Math.floor(a), Math.abs(a)
MathFloor(a) == IF a.k = "fin" THEN Num(a.n \div a.d) ELSE a

MathAbs(a) == IF a.k = "NaN" THEN NaN ELSE [a EXCEPT !.n = Abs(a.n)]

----------------------------------------------------------------------------
(* Moon-phase classifiers (App).  Phases are in millionths. *)

NotCalled == "not called"

getMoonPhaseEmoji_late(p) ==
    IF p >= 0 /\ p < 125000 THEN "U+1F311"
    ELSE IF p < 250000 THEN "U+1F312"
    ELSE IF p < 375000 THEN "U+1F313"
    ELSE IF p < 625000 THEN "U+1F314"
    ELSE IF p < 750000 THEN "U+1F315"
    ELSE IF p < 875000 THEN "U+1F316"
    ELSE IF p <= 950000 THEN "U+1F317"
    ELSE "U+1F318"

getMoonPhaseEmoji(p) ==
    IF p >= 0 /\ p < 125000 THEN "U+1F311"
    ELSE IF p < 250000 THEN "U+1F312"
    ELSE IF p < 375000 THEN "U+1F313"
    ELSE IF p < 625000 THEN "U+1F314"
    ELSE IF p < 750000 THEN "U+1F315"
    ELSE IF p < 875000 THEN "U+1F316"
    ELSE IF p < 950000 THEN "U+1F317"
    ELSE "U+1F318"

getMoonPhaseName_inclusive(p) ==
    IF p >= 0 /\ p <= 125000 THEN "New Moon"
    ELSE IF p < 250000 THEN "Waxing Crescent"
    ELSE IF p < 375000 THEN "First Quarter"
    ELSE IF p < 625000 THEN "Waxing Gibbous"
    ELSE IF p < 750000 THEN "Full Moon"
    ELSE IF p < 875000 THEN "Waning Gibbous"
    ELSE IF p < 950000 THEN "Last Quarter"
    ELSE "Waning Crescent"

getMoonPhaseName(p) ==
    IF p >= 0 /\ p < 125000 THEN "New Moon"
    ELSE IF p < 250000 THEN "Waxing Crescent"
    ELSE IF p < 375000 THEN "First Quarter"
    ELSE IF p < 625000 THEN "Waxing Gibbous"
    ELSE IF p < 750000 THEN "Full Moon"
    ELSE IF p < 875000 THEN "Waning Gibbous"
    ELSE IF p < 950000 THEN "Last Quarter"
    ELSE "Waning Crescent"

----------------------------------------------------------------------------
(* The scroll-driven moon of the page background (App) *)

phases == <<"new-moon", "waxing-crescent", "first-quarter", "waxing-gibbous",
            "full-moon", "waning-gibbous", "third-quarter", "waning-crescent">>

\* phases[Math.min(Math.floor(progress * 8), 7)]: an index that is NaN,
\* negative or -Infinity reads undefined
getMoonPhase(progress) ==
    LET phaseIndex == MathFloor(JsMul(progress, Num(8)))
        index == MathMin(phaseIndex, Num(7))
    IN  IF index.k = "fin" /\ index.n >= 0 /\ index.n < Len(phases)
        THEN phases[index.n + 1]
        ELSE "undefined"

\* handleScroll: windowHeight is scrollHeight - clientHeight, scrolled is
\* window.scrollY; the value passed to setScrollProgress
handleScroll(windowHeight, scrolled) ==
    MathMin(JsDiv(Num(scrolled), Num(windowHeight)), Num(1))

----------------------------------------------------------------------------
(* Number.prototype.toFixed(digits): the decimal text of a number, rounded *)
(* to `digits` decimals, ties away from zero; "NaN" and "Infinity" for the *)
(* non-finite values.  The text is [s, n, f]: n is the value in units of   *)
(* 10^-f.                                                                  *)

RECURSIVE Pow10(_)
Pow10(f) == IF f = 0 THEN 1 ELSE 10 * Pow10(f - 1)

toFixed(x, f) ==
    IF x.k = "NaN" THEN [s |-> "NaN", n |-> 0, f |-> f]
    ELSE IF x.k = "Infinity" THEN [s |-> "Infinity", n |-> x.n, f |-> f]
    ELSE [s |-> "fixed",
          n |-> Sign(x) * ((2 * Abs(x.n) * Pow10(f) + x.d) \div (2 * x.d)),
          f |-> f]

----------------------------------------------------------------------------
(* The dataset: CombinedData.cities, CityData, DailyData (App, lines 18-37) *)

Cities == <<"CHICAGO", "NYC", "LA">>

CitySet == {Cities[i] : i \in 1..Len(Cities)}

\* day of the week of a date (Date.prototype.getDay): 0 is Sunday
getDay_monday(date) == (date + 6) % 7

getDay(date) == date % 7

\* daily_data.reduce((sum, day) => sum + day.count, 0), the sum taken half by
\* half (integer addition is associative)
RECURSIVE SumCount(_)
SumCount(days) ==
    IF days = <<>> THEN 0
    ELSE IF Len(days) = 1 THEN days[1].count
    ELSE LET h == Len(days) \div 2
         IN  SumCount(SubSeq(days, 1, h)) + SumCount(SubSeq(days, h + 1, Len(days)))

IsFullMoon(day) == day.is_full_moon

IsNotFullMoon_any(day) == day.is_full_moon \/ ~day.is_full_moon

IsNotFullMoon(day) == ~day.is_full_moon

----------------------------------------------------------------------------
(* StatisticsPanel *)

StatisticsPanel_calculateStats_swapped(cityData) ==
    LET fullMoonDays == SelectSeq(cityData.daily_data, IsFullMoon)
        nonFullMoonDays == SelectSeq(cityData.daily_data, IsNotFullMoon)
        fullMoonAvg == JsDiv(Num(SumCount(fullMoonDays)), Num(Len(fullMoonDays)))
        nonFullMoonAvg ==
            JsDiv(Num(SumCount(nonFullMoonDays)), Num(Len(nonFullMoonDays)))
    IN  [fullMoonDays |-> Len(fullMoonDays),
         nonFullMoonDays |-> Len(nonFullMoonDays),
         fullMoonAvgCrimes |-> fullMoonAvg,
         nonFullMoonAvgCrimes |-> nonFullMoonAvg,
         normalizedFullMoonRate |-> JsDiv(fullMoonAvg, nonFullMoonAvg),
         normalizedNonFullMoonRate |-> Num(1),
         percentDifference |->
             JsMul(JsDiv(JsSub(fullMoonAvg, nonFullMoonAvg), fullMoonAvg),
                   Num(100))]

StatisticsPanel_calculateStats(cityData) ==
    LET fullMoonDays == SelectSeq(cityData.daily_data, IsFullMoon)
        nonFullMoonDays == SelectSeq(cityData.daily_data, IsNotFullMoon)
        fullMoonAvg == JsDiv(Num(SumCount(fullMoonDays)), Num(Len(fullMoonDays)))
        nonFullMoonAvg ==
            JsDiv(Num(SumCount(nonFullMoonDays)), Num(Len(nonFullMoonDays)))
    IN  [fullMoonDays |-> Len(fullMoonDays),
         nonFullMoonDays |-> Len(nonFullMoonDays),
         fullMoonAvgCrimes |-> fullMoonAvg,
         nonFullMoonAvgCrimes |-> nonFullMoonAvg,
         normalizedFullMoonRate |-> JsDiv(fullMoonAvg, nonFullMoonAvg),
         normalizedNonFullMoonRate |-> Num(1),
         percentDifference |->
             JsMul(JsDiv(JsSub(fullMoonAvg, nonFullMoonAvg), nonFullMoonAvg),
                   Num(100))]

\* the significance badge: p_value < 0.05, p_value in thousandths
StatisticsPanel_badge_inclusive(cityData) ==
    IF cityData.p_value <= 50 THEN "Statistically Significant"
    ELSE "Not Significant"

StatisticsPanel_badge(cityData) ==
    IF cityData.p_value < 50 THEN "Statistically Significant"
    ELSE "Not Significant"

\* the "Summary" box: the sign before the number and the line below it
StatisticsPanel_summary(st) ==
    [sign |-> IF JsGt(st.percentDifference, Num(0)) THEN "+" ELSE "",
     label |-> IF JsGt(st.percentDifference, Num(0)) THEN "Higher"
               ELSE "Lower"]

StatisticsPanel(cityData, city) ==
    [rendered |-> TRUE,
     city |-> city,
     stats |-> StatisticsPanel_calculateStats(cityData),
     badge |-> StatisticsPanel_badge(cityData),
     summary |-> StatisticsPanel_summary(StatisticsPanel_calculateStats(cityData))]

----------------------------------------------------------------------------
(* DistributionAnalysis *)

DistributionAnalysis_calculateStats(cityData) ==
    LET fullMoonDays == SelectSeq(cityData.daily_data, IsFullMoon)
        nonFullMoonDays == SelectSeq(cityData.daily_data, IsNotFullMoon)
        fullMoonAvg == JsDiv(Num(SumCount(fullMoonDays)), Num(Len(fullMoonDays)))
        nonFullMoonAvg ==
            JsDiv(Num(SumCount(nonFullMoonDays)), Num(Len(nonFullMoonDays)))
    IN  [fullMoonAvgCrimes |-> fullMoonAvg,
         nonFullMoonAvgCrimes |-> nonFullMoonAvg,
         normalizedFullMoonRate |-> JsDiv(fullMoonAvg, nonFullMoonAvg),
         normalizedNonFullMoonRate |-> Num(1)]

DistributionAnalysis(cityData, city) ==
    [rendered |-> TRUE,
     city |-> city,
     stats |-> DistributionAnalysis_calculateStats(cityData)]

----------------------------------------------------------------------------
(* GeographicalInsights *)

GeographicalInsights_calculateCityStats(cityData) ==
    LET fullMoonDays == SelectSeq(cityData.daily_data, IsFullMoon)
        nonFullMoonDays == SelectSeq(cityData.daily_data, IsNotFullMoon)
        fullMoonAvg == JsDiv(Num(SumCount(fullMoonDays)), Num(Len(fullMoonDays)))
        nonFullMoonAvg ==
            JsDiv(Num(SumCount(nonFullMoonDays)), Num(Len(nonFullMoonDays)))
        totalIncidents == Num(SumCount(cityData.daily_data))
    IN  [fullMoonAvg |-> fullMoonAvg,
         nonFullMoonAvg |-> nonFullMoonAvg,
         totalIncidents |-> totalIncidents,
         effectSize |->
             JsMul(JsDiv(JsSub(fullMoonAvg, nonFullMoonAvg), nonFullMoonAvg),
                   Num(100)),
         significance |-> cityData.p_value < 50]

\* the "Population Factor" insight, as displayed
GeographicalInsights_populationFactor(chicagoStats, nycStats, laStats) ==
    toFixed(JsDiv(MathMax(nycStats.totalIncidents, laStats.totalIncidents),
                  MathMin(chicagoStats.totalIncidents,
                          MathMin(nycStats.totalIncidents,
                                  laStats.totalIncidents))),
            2)

\* the badge of a city card
GeographicalInsights_badge(cityStats) ==
    IF cityStats.significance THEN "Significant" ELSE "Not Significant"

\* the "Effect Size" line of a city card: its sign and its colour
GeographicalInsights_effect(cityStats) ==
    [sign |-> IF JsGt(cityStats.effectSize, Num(0)) THEN "+" ELSE "",
     colour |-> IF JsGt(cityStats.effectSize, Num(0)) THEN "text-red-400"
                ELSE "text-green-400"]

\* one city's share of the "Statistical Power" insight: 33.33 or 0
GeographicalInsights_contribution(cityStats) ==
    IF cityStats.significance THEN Fin(3333, 100) ELSE Num(0)

GeographicalInsights_statisticalPower_summed(chicagoStats, nycStats, laStats) ==
    JsAdd(JsAdd(GeographicalInsights_contribution(chicagoStats),
                GeographicalInsights_contribution(nycStats)),
          GeographicalInsights_contribution(laStats))

\* the "Statistical Power" insight ("Combined significance level"); the
\* conditional binds weaker than +, so the sum is the whole else-branch
GeographicalInsights_statisticalPower(chicagoStats, nycStats, laStats) ==
    IF chicagoStats.significance /\ nycStats.significance
           /\ laStats.significance
    THEN Num(100)
    ELSE JsAdd(JsAdd(GeographicalInsights_contribution(chicagoStats),
                     GeographicalInsights_contribution(nycStats)),
               GeographicalInsights_contribution(laStats))

GeographicalInsights(cities) ==
    LET chicagoStats == GeographicalInsights_calculateCityStats(cities.CHICAGO)
        nycStats == GeographicalInsights_calculateCityStats(cities.NYC)
        laStats == GeographicalInsights_calculateCityStats(cities.LA)
    IN  [rendered |-> TRUE,
         chicagoStats |-> chicagoStats,
         nycStats |-> nycStats,
         laStats |-> laStats,
         maxTotal |-> MathMax(chicagoStats.totalIncidents,
                              MathMax(nycStats.totalIncidents,
                                      laStats.totalIncidents)),
         badges |-> [CHICAGO |-> GeographicalInsights_badge(chicagoStats),
                     NYC |-> GeographicalInsights_badge(nycStats),
                     LA |-> GeographicalInsights_badge(laStats)],
         effects |-> [CHICAGO |-> GeographicalInsights_effect(chicagoStats),
                      NYC |-> GeographicalInsights_effect(nycStats),
                      LA |-> GeographicalInsights_effect(laStats)],
         populationFactor |->
             GeographicalInsights_populationFactor(chicagoStats, nycStats, laStats),
         statisticalPower |->
             GeographicalInsights_statisticalPower(chicagoStats, nycStats, laStats)]

----------------------------------------------------------------------------
(* ComparisonChart: Chicago and NYC only *)

ComparisonChart_calculateCityStats(cityData) ==
    LET fullMoonDays == SelectSeq(cityData.daily_data, IsFullMoon)
        nonFullMoonDays == SelectSeq(cityData.daily_data, IsNotFullMoon)
        fullMoonAvg == JsDiv(Num(SumCount(fullMoonDays)), Num(Len(fullMoonDays)))
        nonFullMoonAvg ==
            JsDiv(Num(SumCount(nonFullMoonDays)), Num(Len(nonFullMoonDays)))
    IN  [fullMoonAvgCrimes |-> fullMoonAvg,
         nonFullMoonAvgCrimes |-> nonFullMoonAvg,
         normalizedFullMoonRate |-> JsDiv(fullMoonAvg, nonFullMoonAvg)]

ComparisonChart(cities) ==
    [rendered |-> TRUE,
     chicagoStats |-> ComparisonChart_calculateCityStats(cities.CHICAGO),
     nycStats |-> ComparisonChart_calculateCityStats(cities.NYC)]

----------------------------------------------------------------------------
(* TimeAnalysis: weekday aggregation *)

days == <<"Sunday", "Monday", "Tuesday", "Wednesday", "Thursday", "Friday",
          "Saturday">>

\* the data.forEach loop that fills weekdayMap (a Map: a function on the
\* keys set so far), run over the first half of the records and then over
\* the second (the comparison has TLC evaluate the first half first)
RECURSIVE weekdayMapOf(_, _)
weekdayMapOf(records, weekdayMap) ==
    IF records = <<>> THEN weekdayMap
    ELSE IF Len(records) > 1
    THEN LET h == Len(records) \div 2
             firstHalf == weekdayMapOf(SubSeq(records, 1, h), weekdayMap)
         IN  IF firstHalf = firstHalf
             THEN weekdayMapOf(SubSeq(records, h + 1, Len(records)), firstHalf)
             ELSE firstHalf
    ELSE LET day == Head(records)
             weekday == days[getDay(day.date) + 1]
             existing ==
                 IF weekday \in DOMAIN weekdayMap THEN weekdayMap[weekday]
                 ELSE [total |-> 0, count |-> 0, fullMoonTotal |-> 0,
                       fullMoonCount |-> 0]
             updated ==
                 [total |-> existing.total + day.count,
                  count |-> existing.count + 1,
                  fullMoonTotal |-> existing.fullMoonTotal
                      + (IF day.is_full_moon THEN day.count ELSE 0),
                  fullMoonCount |-> existing.fullMoonCount
                      + (IF day.is_full_moon THEN 1 ELSE 0)]
         IN  (weekday :> updated) @@ weekdayMap

\* days.map(...): weekdayMap.get(day) is undefined for a weekday without a
\* record, and reading stats.total of undefined throws a TypeError
getDayOfWeekData(records) ==
    LET weekdayMap == weekdayMapOf(records, [w \in {} |-> 0])
    IN  IF \E i \in 1..Len(days) : days[i] \notin DOMAIN weekdayMap
        THEN [threw |-> "TypeError", buckets |-> <<>>]
        ELSE [threw |-> "",
              buckets |->
                  [i \in 1..Len(days) |->
                      LET st == weekdayMap[days[i]]
                      IN  [name |-> days[i],
                           average |-> JsDiv(Num(st.total), Num(st.count)),
                           fullMoonAverage |->
                               IF st.fullMoonCount > 0
                               THEN JsDiv(Num(st.fullMoonTotal),
                                          Num(st.fullMoonCount))
                               ELSE Num(0),
                           fullMoonCount |-> st.fullMoonCount,
                           totalDays |-> st.count]]]

\* weekdayData.map(...) of the "Day of Week Patterns" grid: percentageChange
\* is computed for every bucket, its label is shown when fullMoonAverage > 0
TimeAnalysis_weekdayCard(day) ==
    LET percentageChange ==
            JsMul(JsSub(JsDiv(day.fullMoonAverage, day.average), Num(1)),
                  Num(100))
    IN  [name |-> day.name,
         percentageChange |-> percentageChange,
         labelShown |-> JsGt(day.fullMoonAverage, Num(0)),
         arrow |-> IF JsGt(percentageChange, Num(0)) THEN "up" ELSE "down"]

----------------------------------------------------------------------------
(* Date: the calendar arithmetic of the JavaScript Date object.  A record's
   date is the number of its local calendar day, day 0 being Sunday
   2023-01-01; years are those of the proleptic Gregorian calendar. *)

\* days from 0000-03-01 to the given year, month (1..12) and day
DaysFromCivil(y, m, d) ==
    LET yy == IF m <= 2 THEN y - 1 ELSE y
        era == yy \div 400
        yoe == yy - era * 400
        mp == IF m > 2 THEN m - 3 ELSE m + 9
        doy == (153 * mp + 2) \div 5 + d - 1
        doe == yoe * 365 + yoe \div 4 - yoe \div 100 + doy
    IN  era * 146097 + doe

DayZero == DaysFromCivil(2023, 1, 1)

\* new Date(year, monthIndex, day): a month index of 12 and a day of 0 roll
\* over into the next year and the previous month
DateOf(year, monthIndex, day) ==
    DaysFromCivil(year + monthIndex \div 12, (monthIndex % 12) + 1, day)
        - DayZero

CivilFromDays(date) ==
    LET z == date + DayZero
        era == z \div 146097
        doe == z - era * 146097
        yoe == (doe - doe \div 1460 + doe \div 36524 - doe \div 146096)
                   \div 365
        doy == doe - (365 * yoe + yoe \div 4 - yoe \div 100)
        mp == (5 * doy + 2) \div 153
        m == IF mp < 10 THEN mp + 3 ELSE mp - 9
    IN  [year |-> yoe + era * 400 + (IF m <= 2 THEN 1 ELSE 0),
         month |-> m,
         day |-> doy - (153 * mp + 2) \div 5 + 1]

getFullYear(date) == CivilFromDays(date).year

\* the month index, 0..11
getMonth(date) == CivilFromDays(date).month - 1

getDate(date) == CivilFromDays(date).day

----------------------------------------------------------------------------
(* TimeAnalysis: monthly aggregation *)

\* `${year}-${month.toString().padStart(2, '0')}`: the year and the two
\* digits of the month number
monthKeyOf(year, month) ==
    [year |-> year, mm |-> <<month \div 10, month % 10>>]

\* month.split('-').map(Number)
monthKeySplit(month) == <<month.year, 10 * month.mm[1] + month.mm[2]>>

\* an entry is found only while it is the last one inserted
monthlyMapSet_lastOnly(monthlyMap, monthKey, dayOfMonth, day) ==
    LET at == {i \in {Len(monthlyMap)} \ {0} : monthlyMap[i].key = monthKey}
        existing ==
            IF at # {} THEN monthlyMap[CHOOSE i \in at : TRUE].stats
            ELSE [total |-> 0, count |-> 0, fullMoonTotal |-> 0,
                  fullMoonCount |-> 0, days |-> {}, fullMoonDays |-> {}]
        updated ==
            [total |-> existing.total + day.count,
             count |-> existing.count + 1,
             fullMoonTotal |-> existing.fullMoonTotal
                 + (IF day.is_full_moon THEN day.count ELSE 0),
             fullMoonCount |-> existing.fullMoonCount
                 + (IF day.is_full_moon THEN 1 ELSE 0),
             days |-> existing.days \cup {dayOfMonth},
             fullMoonDays |-> existing.fullMoonDays
                 \cup (IF day.is_full_moon THEN {dayOfMonth} ELSE {})]
    IN  IF at # {}
        THEN [monthlyMap EXCEPT ![CHOOSE i \in at : TRUE].stats = updated]
        ELSE Append(monthlyMap, [key |-> monthKey, stats |-> updated])

\* the body of the data.forEach loop: the entry of monthKey is created or
\* updated with the record day, whose day of the month is dayOfMonth
monthlyMapSet(monthlyMap, monthKey, dayOfMonth, day) ==
    LET at == {i \in 1..Len(monthlyMap) : monthlyMap[i].key = monthKey}
        existing ==
            IF at # {} THEN monthlyMap[CHOOSE i \in at : TRUE].stats
            ELSE [total |-> 0, count |-> 0, fullMoonTotal |-> 0,
                  fullMoonCount |-> 0, days |-> {}, fullMoonDays |-> {}]
        updated ==
            [total |-> existing.total + day.count,
             count |-> existing.count + 1,
             fullMoonTotal |-> existing.fullMoonTotal
                 + (IF day.is_full_moon THEN day.count ELSE 0),
             fullMoonCount |-> existing.fullMoonCount
                 + (IF day.is_full_moon THEN 1 ELSE 0),
             days |-> existing.days \cup {dayOfMonth},
             fullMoonDays |-> existing.fullMoonDays
                 \cup (IF day.is_full_moon THEN {dayOfMonth} ELSE {})]
    IN  IF at # {}
        THEN [monthlyMap EXCEPT ![CHOOSE i \in at : TRUE].stats = updated]
        ELSE Append(monthlyMap, [key |-> monthKey, stats |-> updated])

\* the data.forEach loop that fills monthlyMap (a Map keeps its keys in
\* insertion order: a sequence of entries), run over the first half of the
\* records and then over the second (the comparison has TLC evaluate the
\* first half first)
RECURSIVE monthlyMapOf(_, _)
monthlyMapOf(records, monthlyMap) ==
    IF records = <<>> THEN monthlyMap
    ELSE IF Len(records) > 1
    THEN LET h == Len(records) \div 2
             firstHalf == monthlyMapOf(SubSeq(records, 1, h), monthlyMap)
         IN  IF firstHalf = firstHalf
             THEN monthlyMapOf(SubSeq(records, h + 1, Len(records)), firstHalf)
             ELSE firstHalf
    ELSE monthlyMapSet(monthlyMap,
                       monthKeyOf(getFullYear(Head(records).date),
                                  getMonth(Head(records).date) + 1),
                       getDate(Head(records).date),
                       Head(records))

getMonthlyData_daysInMonth_before(year, monthNum) ==
    getDate(DateOf(year, monthNum - 1, 0))

\* new Date(year, monthNum, 0).getDate(): monthNum is the index of the month
\* after the bucket's, day 0 the last day of the bucket's month
getMonthlyData_daysInMonth(year, monthNum) ==
    getDate(DateOf(year, monthNum, 0))

getMonthlyData_completeness_fraction(st, daysInMonth) ==
    JsDiv(Num(Cardinality(st.days)), Num(daysInMonth))

getMonthlyData_completeness(st, daysInMonth) ==
    JsMul(JsDiv(Num(Cardinality(st.days)), Num(daysInMonth)), Num(100))

getMonthlyData_fullMoonCompleteness_anyDay(st) ==
    IF st.count > 0 THEN 100 ELSE 0

getMonthlyData_fullMoonCompleteness(st) ==
    IF st.fullMoonCount > 0 THEN 100 ELSE 0

\* the callback of Array.from(monthlyMap.entries()).map
getMonthlyData_bucket(month, st, daysInMonth) ==
    [month |-> month,
     average |-> JsDiv(Num(st.total), Num(st.count)),
     fullMoonAverage |->
         IF st.fullMoonCount > 0
         THEN JsDiv(Num(st.fullMoonTotal), Num(st.fullMoonCount))
         ELSE Num(0),
     fullMoonCount |-> st.fullMoonCount,
     totalDays |-> st.count,
     completeness |-> getMonthlyData_completeness(st, daysInMonth),
     fullMoonCompleteness |-> getMonthlyData_fullMoonCompleteness(st),
     daysInMonth |-> daysInMonth,
     daysWithData |-> Cardinality(st.days)]

\* Array.from(monthlyMap.entries()).map(...)
getMonthlyData_map(monthlyMap) ==
    [i \in 1..Len(monthlyMap) |->
        getMonthlyData_bucket(
            monthlyMap[i].key, monthlyMap[i].stats,
            getMonthlyData_daysInMonth(monthKeySplit(monthlyMap[i].key)[1],
                                       monthKeySplit(monthlyMap[i].key)[2]))]

getMonthlyData(records) == getMonthlyData_map(monthlyMapOf(records, <<>>))

----------------------------------------------------------------------------
(* TimeAnalysis: the synthetic hourly profile *)

Hours == 24

\* Math.sin at the multiples of pi / 12 from 0 to pi / 2, in thousandths
SinTable == <<0, 259, 500, 707, 866, 966, 1000>>

\* Math.sin(k * Math.PI / 12) for an integer k
SinTwelfths(k) ==
    LET r == k % 24
        q == r % 12
        a == IF q <= 6 THEN q ELSE 12 - q
    IN  Fin((IF r < 12 THEN 1 ELSE -1) * SinTable[a + 1], 1000)

\* Math.sin((hour - 6) * Math.PI / 12) + 1.5
hourlyFactor(hour) == JsAdd(SinTwelfths(hour - 6), Fin(3, 2))

\* seededRandom(hour * 1000) and seededRandom(hour * 2000) for the hours
\* 0..23, in thousandths: the fractional part of Math.sin(seed) * 10000
seededRandom1000 ==
    <<0, 795, 395, 900, 962, 336, 805, 854,
      430, 467, 856, 111, 588, 796, 841, 287,
      71, 226, 363, 779, 848, 142, 520, 130>>

seededRandom2000 ==
    <<0, 395, 962, 805, 430, 856, 588, 841,
      71, 363, 848, 520, 569, 413, 501, 346,
      441, 650, 660, 659, 397, 41, 865, 111>>

\* a generator that is not seeded: its value changes between calls (with
\* the scroll position of the page)
seededRandom_unseeded(seed) ==
    JsDiv(Num(1), JsAdd(MathAbs(scrollProgress), Num(2)))

seededRandom(seed) ==
    IF seed % 2000 = 0 /\ seed \div 2000 < Hours
    THEN Fin(seededRandom2000[seed \div 2000 + 1], 1000)
    ELSE Fin(seededRandom1000[seed \div 1000 + 1], 1000)

hourFormatted(hour) ==
    IF hour = 0 THEN <<12, "AM">>
    ELSE IF hour = 12 THEN <<12, "PM">>
    ELSE IF hour > 12 THEN <<hour - 12, "PM">>
    ELSE <<hour, "AM">>

\* the factors of an hour slot that do not depend on the data: hourlyFactor,
\* normalRate * 0.4 + 0.8 and fullMoonRate * 0.6 + 1.0
getHourlyData_weights ==
    [i \in 1..Hours |->
        [hourlyFactor |-> hourlyFactor(i - 1),
         normal |-> JsAdd(JsMul(seededRandom((i - 1) * 1000), Fin(4, 10)),
                          Fin(8, 10)),
         fullMoon |-> JsAdd(JsMul(seededRandom((i - 1) * 2000), Fin(6, 10)),
                            Num(1))]]

\* baseRate is the same for every hour slot, baseRate * hourlyFactor the same
\* for the two rates of a slot
getHourlyData_entry(hour, scaled, weights) ==
    [hour |-> hourFormatted(hour),
     rawHour |-> hour,
     rate |-> JsMul(scaled, weights.normal),
     fullMoonRate |-> JsMul(scaled, weights.fullMoon)]

getHourlyData_from(baseRate) ==
    [i \in 1..Hours |->
        getHourlyData_entry(
            i - 1, JsMul(baseRate, getHourlyData_weights[i].hourlyFactor),
            getHourlyData_weights[i])]

getHourlyData(records) ==
    getHourlyData_from(JsDiv(Num(SumCount(records)), Num(Len(records))))

\* the header of the hourly chart: its title and the label beside it
TimeAnalysis_hourlyHeader(city) ==
    [title |-> "24-Hour Cycle",
     label |-> IF city = "CHICAGO" THEN "Chicago Data"
               ELSE IF city = "NYC" THEN "NYC Data" ELSE "LA Data"]

----------------------------------------------------------------------------
(* TimeAnalysis: the component *)

TimeAnalysis_useMemo_once(prev, records) ==
    IF prev.rendered THEN prev.hourlyData ELSE getHourlyData(records)

\* useMemo(..., [data]) around the hourly profile: the value of the previous
\* render is kept while the data prop is the same array.  The prop is
\* data.cities[selectedCity].daily_data of a document that is set once, so
\* two renders get the same array exactly when they get the same series of
\* the same city; arrays are compared here by their content, and two cities
\* with equal content get equal profiles either way.
TimeAnalysis_useMemo(prev, records) ==
    IF prev.rendered /\ prev.deps = records THEN prev.hourlyData
    ELSE getHourlyData(records)

\* monthlyData.map(...) of the "Monthly Distribution" grid: percentageChange
\* is 0 when fullMoonAverage is falsy (0 or NaN); the full-moon block of the
\* hover card is shown when fullMoonCount > 0
TimeAnalysis_monthCard(month) ==
    LET percentageChange ==
            IF month.fullMoonAverage.k # "NaN" /\ month.fullMoonAverage.n # 0
            THEN JsMul(JsSub(JsDiv(month.fullMoonAverage, month.average),
                             Num(1)),
                       Num(100))
            ELSE Num(0)
    IN  [month |-> month.month,
         percentageChange |-> percentageChange,
         isSignificantChange |-> JsGt(MathAbs(percentageChange), Num(10)),
         fullMoonShown |-> month.fullMoonCount > 0,
         arrow |-> IF JsGt(percentageChange, Num(0)) THEN "up" ELSE "down",
         text |-> toFixed(MathAbs(percentageChange), 0)]

\* the JSX of the component, given what its body computed
TimeAnalysis_return(prev, records, city, monthlyData, weekdayData) ==
    [rendered |-> TRUE,
     threw |-> weekdayData.threw,
     city |-> city,
     deps |-> records,
     memoHit |-> prev.rendered /\ prev.deps = records,
     hourlyData |-> TimeAnalysis_useMemo(prev, records),
     monthlyData |-> monthlyData,
     monthlyCards |->
         [i \in 1..Len(monthlyData) |-> TimeAnalysis_monthCard(monthlyData[i])],
     weekdayData |-> weekdayData,
     weekdayCards |->
         [i \in 1..Len(weekdayData.buckets) |->
             TimeAnalysis_weekdayCard(weekdayData.buckets[i])],
     hourlyHeader |-> TimeAnalysis_hourlyHeader(city)]

\* the component body in the order of the code: the memoized hourly profile,
\* monthlyData, weekdayData (which may throw), then the JSX; prev is what
\* the previous render of the component left
TimeAnalysis(prev, records, city) ==
    TimeAnalysis_return(prev, records, city, getMonthlyData(records),
                        getDayOfWeekData(records))

----------------------------------------------------------------------------
(* App: the statistics computed in the component body and in its JSX *)

IsNull(d) == DOMAIN d.cities = {}

App_chicagoStats(d) ==
    LET fullMoonDays == SelectSeq(d.cities.CHICAGO.daily_data, IsFullMoon)
        nonFullMoonDays == SelectSeq(d.cities.CHICAGO.daily_data, IsNotFullMoon)
        fullMoonAvg == JsDiv(Num(SumCount(fullMoonDays)), Num(Len(fullMoonDays)))
        nonFullMoonAvg ==
            JsDiv(Num(SumCount(nonFullMoonDays)), Num(Len(nonFullMoonDays)))
        percentDiff ==
            JsMul(JsDiv(JsSub(fullMoonAvg, nonFullMoonAvg), nonFullMoonAvg),
                  Num(100))
    IN  [percentDiff |-> percentDiff, fullMoonAvg |-> fullMoonAvg,
         nonFullMoonAvg |-> nonFullMoonAvg]

App_nycStats(d) ==
    LET fullMoonDays == SelectSeq(d.cities.NYC.daily_data, IsFullMoon)
        nonFullMoonDays == SelectSeq(d.cities.NYC.daily_data, IsNotFullMoon)
        fullMoonAvg == JsDiv(Num(SumCount(fullMoonDays)), Num(Len(fullMoonDays)))
        nonFullMoonAvg ==
            JsDiv(Num(SumCount(nonFullMoonDays)), Num(Len(nonFullMoonDays)))
        percentDiff ==
            JsMul(JsDiv(JsSub(fullMoonAvg, nonFullMoonAvg), nonFullMoonAvg),
                  Num(100))
    IN  [percentDiff |-> percentDiff, fullMoonAvg |-> fullMoonAvg,
         nonFullMoonAvg |-> nonFullMoonAvg]

\* the LA card computed from the NYC series
App_laStats_copied(d) == App_nycStats(d)

App_laStats(d) ==
    LET fullMoonDays == SelectSeq(d.cities.LA.daily_data, IsFullMoon)
        nonFullMoonDays == SelectSeq(d.cities.LA.daily_data, IsNotFullMoon)
        fullMoonAvg == JsDiv(Num(SumCount(fullMoonDays)), Num(Len(fullMoonDays)))
        nonFullMoonAvg ==
            JsDiv(Num(SumCount(nonFullMoonDays)), Num(Len(nonFullMoonDays)))
        percentDiff ==
            JsMul(JsDiv(JsSub(fullMoonAvg, nonFullMoonAvg), nonFullMoonAvg),
                  Num(100))
    IN  [percentDiff |-> percentDiff, fullMoonAvg |-> fullMoonAvg,
         nonFullMoonAvg |-> nonFullMoonAvg]

App_cardText_nonNegative(cityStats) ==
    IF JsLt(cityStats.percentDiff, Num(0)) THEN "lower" ELSE "higher"

\* the sentence of a city's impact card: "... higher homicide rate" or
\* "... lower homicide rate"
App_cardText(cityStats) ==
    IF JsGt(cityStats.percentDiff, Num(0)) THEN "higher" ELSE "lower"

\* "Overall Impact": which cities count as significant
App_cityStats(d) ==
    [CHICAGO |-> d.cities.CHICAGO.p_value < 50,
     NYC |-> d.cities.NYC.p_value < 50,
     LA |-> d.cities.LA.p_value < 50]

App_significantCount(d) ==
    Cardinality({c \in CitySet : App_cityStats(d)[c]})

App_monthKey_index(date) == monthKeyOf(getFullYear(date), getMonth(date))

\* `${date.getFullYear()}-${(date.getMonth() + 1).toString().padStart(2, '0')}`
App_monthKey(date) == monthKeyOf(getFullYear(date), getMonth(date) + 1)

\* the reducer of "Prepare monthly averages": acc.find(m => m.month ===
\* monthKey) is updated in place, or a new month is pushed
App_monthlyReducer(acc, day) ==
    IF \E i \in 1..Len(acc) : acc[i].month = App_monthKey(day.date)
    THEN [i \in 1..Len(acc) |->
             IF acc[i].month = App_monthKey(day.date)
             THEN [month |-> acc[i].month,
                   totalHomicides |-> acc[i].totalHomicides + day.count,
                   days |-> acc[i].days + 1]
             ELSE acc[i]]
    ELSE Append(acc, [month |-> App_monthKey(day.date),
                      totalHomicides |-> day.count, days |-> 1])

\* daily_data.reduce(reducer, []), run over the first half of the records
\* and then over the second (the comparison has TLC evaluate the first half
\* first)
RECURSIVE App_monthlyReduce(_, _)
App_monthlyReduce(records, acc) ==
    IF records = <<>> THEN acc
    ELSE IF Len(records) > 1
    THEN LET h == Len(records) \div 2
             firstHalf == App_monthlyReduce(SubSeq(records, 1, h), acc)
         IN  IF firstHalf = firstHalf
             THEN App_monthlyReduce(SubSeq(records, h + 1, Len(records)),
                                    firstHalf)
             ELSE firstHalf
    ELSE App_monthlyReducer(acc, Head(records))

\* .map(month => ({month: month.month, average: month.totalHomicides /
\* month.days})); the accumulated months are kept beside the averages
App_monthlyData_map(months) ==
    [months |-> months,
     averages |->
         [i \in 1..Len(months) |->
             [month |-> months[i].month,
              average |-> JsDiv(Num(months[i].totalHomicides),
                                Num(months[i].days))]]]

App_monthlyData(records) ==
    App_monthlyData_map(App_monthlyReduce(records, <<>>))

\* one entry of the stats object of the "Most pronounced effect" sentence
App_percentDiff(cityData) ==
    LET fullMoonDays == SelectSeq(cityData.daily_data, IsFullMoon)
        nonFullMoonDays == SelectSeq(cityData.daily_data, IsNotFullMoon)
        fullMoonAvg == JsDiv(Num(SumCount(fullMoonDays)), Num(Len(fullMoonDays)))
        nonFullMoonAvg ==
            JsDiv(Num(SumCount(nonFullMoonDays)), Num(Len(nonFullMoonDays)))
    IN  JsMul(JsDiv(JsSub(fullMoonAvg, nonFullMoonAvg), nonFullMoonAvg),
              Num(100))

\* the callback of Object.entries(stats).reduce: a is kept only when its
\* absolute value is greater
App_maxCity_pick(a, b) ==
    IF JsGt(MathAbs(a[2]), MathAbs(b[2])) THEN a ELSE b

\* Object.entries(stats).reduce(...) without an initial value: the entries
\* are taken in the order CHICAGO, NYC, LA
App_maxCity(d) ==
    App_maxCity_pick(
        App_maxCity_pick(<<"CHICAGO", App_percentDiff(d.cities.CHICAGO)>>,
                         <<"NYC", App_percentDiff(d.cities.NYC)>>),
        <<"LA", App_percentDiff(d.cities.LA)>>)

\* the sentence "Most pronounced effect observed in ... with a ... % difference"
App_mostPronounced(maxCity) ==
    [city |-> maxCity[1],
     direction |-> IF JsGt(maxCity[2], Num(0)) THEN "positive" ELSE "negative",
     magnitude |-> toFixed(MathAbs(maxCity[2]), 1)]

\* the component body below the loading guard
App(d, city) ==
    IF IsNull(d) THEN [rendered |-> TRUE, loading |-> TRUE]
    ELSE LET currentCityData == d.cities[city]
             fullMoonDays == SelectSeq(currentCityData.daily_data, IsFullMoon)
             nonFullMoonDays ==
                 SelectSeq(currentCityData.daily_data, IsNotFullMoon)
         IN  [rendered |-> TRUE,
              loading |-> FALSE,
              city |-> city,
              fullMoonAvg |->
                  JsDiv(Num(SumCount(fullMoonDays)), Num(Len(fullMoonDays))),
              nonFullMoonAvg |->
                  JsDiv(Num(SumCount(nonFullMoonDays)),
                        Num(Len(nonFullMoonDays))),
              totalHomicides |-> Num(SumCount(currentCityData.daily_data)),
              monthlyData |-> App_monthlyData(currentCityData.daily_data),
              chicagoStats |-> App_chicagoStats(d),
              nycStats |-> App_nycStats(d),
              laStats |-> App_laStats(d),
              cards |-> [CHICAGO |-> App_cardText(App_chicagoStats(d)),
                         NYC |-> App_cardText(App_nycStats(d)),
                         LA |-> App_cardText(App_laStats(d))],
              cityStats |-> App_cityStats(d),
              significantCount |-> App_significantCount(d),
              mostPronounced |-> App_mostPronounced(App_maxCity(d))]

----------------------------------------------------------------------------
(* Inputs *)

MaxLen == 2          \* records in the series of the city that is varied
MaxCount == 2        \* largest daily count
MaxDocRecords == 3   \* records of a document whose three cities all vary
PhaseEps == 1        \* millionths explored around each phase threshold
PEps == 1            \* thousandths explored around the p-value threshold
MaxScroll == 8       \* largest scroll offset and scrollable height, in pixels

SeqsUpTo(S, n) == UNION {[1..k -> S] : k \in 0..n}

\* a DailyData record; is_full_moon is derived upstream from moon_phase
Record(date, count, full) ==
    [date |-> date, count |-> count,
     moon_phase |-> IF full THEN 500000 ELSE 100000, is_full_moon |-> full]

\* Sunday 2023-01-01, Monday 2023-01-02, Wednesday 2023-02-01
Dates == {0, 1, 31}

Records == {Record(dt, c, f) : dt \in Dates, c \in 0..MaxCount, f \in BOOLEAN}

\* ten non-full-moon days of count 5, three full-moon days of count 8
ExampleData ==
    [i \in 1..13 |-> IF i <= 10 THEN Record(i - 1, 5, FALSE)
                     ELSE Record(i - 1, 8, TRUE)]

\* one record for every day of a week, the Wednesday a full moon
ExampleWeek == [i \in 1..7 |-> Record(i - 1, i % 3, i = 4)]

CityInputs == SeqsUpTo(Records, MaxLen) \cup {ExampleData, ExampleWeek}

\* Sunday 2023-01-01, 2023-02-28, 2023-12-31, the leap days 2024-02-29 and
\* 2000-02-29, and 2100-02-01 (2100 is no leap year)
TimeDates ==
    {DateOf(2023, 0, 1), DateOf(2023, 1, 28), DateOf(2023, 11, 31),
     DateOf(2024, 1, 29), DateOf(2000, 1, 29), DateOf(2100, 1, 1)}

TimeRecords ==
    {Record(dt, c, f) : dt \in TimeDates, c \in {0, MaxCount}, f \in BOOLEAN}

\* one record for every day of the year 2024, a full moon every 29 days
Year2024 ==
    [i \in 1..(DateOf(2025, 0, 1) - DateOf(2024, 0, 1)) |->
        Record(DateOf(2024, 0, i), i % 3, i % 29 = 14)]

TimeExamples == {ExampleData, ExampleWeek, Year2024}

CityData(p, daily) == [p_value |-> p, daily_data |-> daily]

\* series of consecutive days, one record a day
Shapes(n) == [1..n -> (0..MaxCount) \X BOOLEAN]

Series(shape) == [i \in 1..Len(shape) |-> Record(i - 1, shape[i][1], shape[i][2])]

PValues == {50 + e : e \in -PEps..PEps} \cup {0, 1000}

Doc(chicago, nyc, la) == [cities |-> [CHICAGO |-> chicago, NYC |-> nyc, LA |-> la]]

\* the lengths of three series of MaxDocRecords records in all
DocLengths ==
    {m \in (0..MaxDocRecords) \X (0..MaxDocRecords) \X (0..MaxDocRecords) :
        m[1] + m[2] + m[3] <= MaxDocRecords}

\* a week of records, one a day, that starts with the records of a shape
WeekOf(shape) ==
    [i \in 1..7 |-> IF i <= Len(shape)
                    THEN Record(i - 1, shape[i][1], shape[i][2])
                    ELSE ExampleWeek[i]]

\* the CHICAGO series of the documents a fetch may deliver: a single record
\* (six weekdays are missing) and a whole week
AppSeries ==
    {Series(shape) : shape \in Shapes(1)}
        \cup {WeekOf(shape) : shape \in Shapes(1)}

\* the documents a fetch may deliver
DocsApp ==
    {Doc(CityData(40, s), CityData(40, ExampleData), CityData(60, ExampleWeek)) :
        s \in AppSeries}

\* window.scrollY (negative while the page bounces at the top) and
\* scrollHeight - clientHeight (0 for a page that does not scroll)
ScrollOffsets == -1..(MaxScroll + 1)

PageHeights == {0, MaxScroll}

PhaseThresholds == {0, 125000, 250000, 375000, 625000, 750000, 875000, 950000,
                    1000000}

PhaseInputs ==
    {t + e : t \in PhaseThresholds, e \in -PhaseEps..PhaseEps}
        \cup {-500000, 500000, 1500000}

----------------------------------------------------------------------------
(* State machine *)

Null == [cities |-> [c \in {} |-> 0]]

Unrendered == [rendered |-> FALSE]

\* one render pass of the App tree: App, then GeographicalInsights,
\* StatisticsPanel, DistributionAnalysis and TimeAnalysis in JSX order.  An
\* error thrown by a component while it renders is caught nowhere (the tree
\* has no error boundary), and React then unmounts the whole root.
RenderTree(d, city, progress) ==
    /\ currentPhase' = getMoonPhase(progress)
    /\ app' = App(d, city)
    /\ IF IsNull(d)
       THEN /\ geo' = Unrendered
            /\ stats' = Unrendered
            /\ dist' = Unrendered
            /\ time' = Unrendered
            /\ root' = "mounted"
       ELSE /\ geo' = GeographicalInsights(d.cities)
            /\ stats' = StatisticsPanel(d.cities[city], city)
            /\ dist' = DistributionAnalysis(d.cities[city], city)
            /\ time' = TimeAnalysis(time, d.cities[city].daily_data, city)
            /\ root' = IF time'.threw # "" THEN "unmounted" ELSE "mounted"

\* state after construction: data is null, the loading view is rendered
Init ==
    /\ data = Null
    /\ selectedCity = "CHICAGO"
    /\ scrollProgress = Num(0)
    /\ fetchPc = "fetching"
    /\ phase = 0
    /\ phaseName = NotCalled
    /\ phaseEmoji = NotCalled
    /\ app = App(Null, "CHICAGO")
    /\ geo = Unrendered
    /\ stats = Unrendered
    /\ dist = Unrendered
    /\ cmp = Unrendered
    /\ time = Unrendered
    /\ currentPhase = getMoonPhase(Num(0))
    /\ root = "mounted"

\* fetchData resolves: setData(jsonData), then the tree renders
FetchSuccess ==
    /\ fetchPc = "fetching"
    /\ \E doc \in DocsApp :
        /\ data' = doc
        /\ RenderTree(doc, selectedCity, scrollProgress)
    /\ fetchPc' = "done"
    /\ UNCHANGED <<selectedCity, scrollProgress, phaseVars, cmp>>

\* a catch block that falls back to a built-in document
FetchFailure_fallback ==
    /\ fetchPc = "fetching"
    /\ fetchPc' = "failed"
    /\ data' = Doc(CityData(40, ExampleWeek), CityData(40, ExampleData),
                   CityData(60, ExampleWeek))
    /\ RenderTree(data', selectedCity, scrollProgress)
    /\ UNCHANGED <<selectedCity, scrollProgress, phaseVars, cmp>>

\* fetch rejects or the response is not ok: the error is logged
FetchFailure ==
    /\ fetchPc = "fetching"
    /\ fetchPc' = "failed"
    /\ UNCHANGED <<data, selectedCity, scrollProgress, phaseVars, viewVars>>

\* onChange of the city <select>, which exists only below the loading guard
SelectCity ==
    /\ ~IsNull(data)
    /\ root = "mounted"
    /\ \E c \in CitySet :
        /\ selectedCity' = c
        /\ RenderTree(data, c, scrollProgress)
    /\ UNCHANGED <<data, scrollProgress, fetchPc, phaseVars, cmp>>

\* the scroll listener, also called once when the App mounts:
\* setScrollProgress(progress), then the tree renders again
HandleScroll ==
    /\ root = "mounted"
    /\ \E windowHeight \in PageHeights, scrolled \in ScrollOffsets :
        /\ scrollProgress' = handleScroll(windowHeight, scrolled)
        /\ RenderTree(data, selectedCity,
                      handleScroll(windowHeight, scrolled))
    /\ UNCHANGED <<data, selectedCity, fetchPc, phaseVars, cmp>>

Next == FetchSuccess \/ FetchFailure \/ SelectCity \/ HandleScroll

Spec == Init /\ [][Next]_vars

----------------------------------------------------------------------------
(* The components applied to a loaded document *)

Loaded(doc, city) ==
    /\ data = doc
    /\ selectedCity = city
    /\ scrollProgress = Num(0)
    /\ fetchPc = "done"
    /\ phase = 0
    /\ phaseName = NotCalled
    /\ phaseEmoji = NotCalled
    /\ app = Unrendered
    /\ geo = Unrendered
    /\ stats = Unrendered
    /\ dist = Unrendered
    /\ cmp = Unrendered
    /\ time = Unrendered
    /\ currentPhase = NotCalled
    /\ root = "mounted"

Render ==
    /\ ~app.rendered
    /\ RenderTree(data, selectedCity, scrollProgress)
    /\ UNCHANGED <<appVars, phaseVars, cmp>>

\* ComparisonChart is mounted by no component of the App: a page that mounts
\* it beside the App's tree renders it with the same data, after the tree
RenderComparisonChart ==
    /\ app.rendered
    /\ ~cmp.rendered
    /\ cmp' = ComparisonChart(data.cities)
    /\ UNCHANGED <<appVars, phaseVars, app, geo, stats, dist, time,
                   currentPhase, root>>

NextRender == Render \/ RenderComparisonChart

\* only CHICAGO varies, CHICAGO is selected (the initial selection)
InitCity ==
    \E s \in CityInputs :
        Loaded(Doc(CityData(40, s), CityData(40, ExampleData),
                   CityData(60, ExampleWeek)), "CHICAGO")

SpecCity == InitCity /\ [][NextRender]_vars

\* all three cities vary, MaxDocRecords records in all, any city selected
InitGeo ==
    \E n \in DocLengths, city \in CitySet :
        \E a \in Shapes(n[1]), b \in Shapes(n[2]), c \in Shapes(n[3]) :
            Loaded(Doc(CityData(40, Series(a)), CityData(40, Series(b)),
                       CityData(60, Series(c))), city)

SpecGeo == InitGeo /\ [][NextRender]_vars

\* the three p-values vary, any city selected
InitSig ==
    \E t \in PValues \X PValues \X PValues, city \in CitySet :
        Loaded(Doc(CityData(t[1], ExampleData), CityData(t[2], ExampleWeek),
                   CityData(t[3], ExampleData)), city)

SpecSig == InitSig /\ [][NextRender]_vars

\* only CHICAGO varies, over series whose dates span months, years and leap
\* years; CHICAGO is selected
InitTime ==
    \/ \E k \in 0..MaxLen :
           \E s \in [1..k -> TimeRecords] :
               Loaded(Doc(CityData(40, s), CityData(40, ExampleData),
                          CityData(60, ExampleWeek)), "CHICAGO")
    \/ \E s \in TimeExamples :
           Loaded(Doc(CityData(40, s), CityData(40, ExampleData),
                      CityData(60, ExampleWeek)), "CHICAGO")

SpecTime == InitTime /\ [][NextRender]_vars

----------------------------------------------------------------------------
(* The classifiers applied to a phase value *)

InitPhase ==
    /\ data = Null
    /\ selectedCity = "CHICAGO"
    /\ scrollProgress = Num(0)
    /\ fetchPc = "fetching"
    /\ phase \in PhaseInputs
    /\ phaseName = NotCalled
    /\ phaseEmoji = NotCalled
    /\ app = Unrendered
    /\ geo = Unrendered
    /\ stats = Unrendered
    /\ dist = Unrendered
    /\ cmp = Unrendered
    /\ time = Unrendered
    /\ currentPhase = NotCalled
    /\ root = "mounted"

CallGetMoonPhaseName ==
    /\ phaseName = NotCalled
    /\ phaseName' = getMoonPhaseName(phase)
    /\ UNCHANGED <<appVars, viewVars, phase, phaseEmoji>>

CallGetMoonPhaseEmoji ==
    /\ phaseEmoji = NotCalled
    /\ phaseEmoji' = getMoonPhaseEmoji(phase)
    /\ UNCHANGED <<appVars, viewVars, phase, phaseName>>

NextPhase == CallGetMoonPhaseName \/ CallGetMoonPhaseEmoji

SpecPhase == InitPhase /\ [][NextPhase]_vars

----------------------------------------------------------------------------
(* Properties *)

\* the sum of count over the records of one part, and the size of the part
RECURSIVE PartRange(_, _, _, _)
PartRange(records, full, lo, hi) ==
    IF lo > hi THEN 0
    ELSE IF lo = hi
         THEN (IF records[lo].is_full_moon = full THEN records[lo].count ELSE 0)
    ELSE LET h == (lo + hi) \div 2
         IN  PartRange(records, full, lo, h) + PartRange(records, full, h + 1, hi)

PartTotal(records, full, i) == PartRange(records, full, 1, i)

PartSize(records, full) ==
    Cardinality({i \in DOMAIN records : records[i].is_full_moon = full})

SelectedRecords == data.cities[selectedCity].daily_data

\* C1: the group averages are never NaN: an empty full-moon or
\* non-full-moon part is reported as an error, not as the average 0/0.
C1_NoNaNAverage ==
    /\ stats.rendered =>
           /\ stats.stats.fullMoonAvgCrimes.k # "NaN"
           /\ stats.stats.nonFullMoonAvgCrimes.k # "NaN"
    /\ geo.rendered =>
           \A st \in {geo.chicagoStats, geo.nycStats, geo.laStats} :
               st.fullMoonAvg.k # "NaN" /\ st.nonFullMoonAvg.k # "NaN"
    /\ (app.rendered /\ ~app.loading) =>
           app.fullMoonAvg.k # "NaN" /\ app.nonFullMoonAvg.k # "NaN"

\* C2: with both parts non-empty and a baseline (non-full-moon) average of
\* 0, percentDifference and normalizedRatio are never Infinity or NaN.
C2_NoInfiniteEffect ==
    /\ (/\ stats.rendered
        /\ stats.stats.fullMoonDays > 0
        /\ stats.stats.nonFullMoonDays > 0
        /\ stats.stats.nonFullMoonAvgCrimes = Num(0)) =>
           /\ IsFinite(stats.stats.percentDifference)
           /\ IsFinite(stats.stats.normalizedFullMoonRate)
    /\ (/\ dist.rendered
        /\ PartSize(SelectedRecords, TRUE) > 0
        /\ PartSize(SelectedRecords, FALSE) > 0
        /\ dist.stats.nonFullMoonAvgCrimes = Num(0)) =>
           IsFinite(dist.stats.normalizedFullMoonRate)
    /\ (/\ geo.rendered
        /\ PartSize(data.cities.CHICAGO.daily_data, TRUE) > 0
        /\ PartSize(data.cities.CHICAGO.daily_data, FALSE) > 0
        /\ geo.chicagoStats.nonFullMoonAvg = Num(0)) =>
           IsFinite(geo.chicagoStats.effectSize)

\* C3: weekday aggregation never throws and returns the 7 buckets Sunday to
\* Saturday, each with totalDays the number of records of that weekday (0
\* for a weekday without records).
C3_SevenBuckets ==
    time.rendered =>
        /\ time.weekdayData.threw = ""
        /\ Len(time.weekdayData.buckets) = 7
        /\ \A i \in 1..7 :
               /\ time.weekdayData.buckets[i].name = days[i]
               /\ time.weekdayData.buckets[i].totalDays =
                      Cardinality({j \in DOMAIN SelectedRecords :
                                      SelectedRecords[j].date % 7 = i - 1})

Total(city) ==
    PartTotal(data.cities[city].daily_data, TRUE, Len(data.cities[city].daily_data))
        + PartTotal(data.cities[city].daily_data, FALSE,
                    Len(data.cities[city].daily_data))

MaxOf(S) == CHOOSE x \in S : \A y \in S : y <= x

MinOf(S) == CHOOSE x \in S : \A y \in S : x <= y

\* C4: with three positive city totals the displayed populationFactor is
\* the largest total divided by the smallest, to two decimals.
C4_PopulationFactor ==
    (geo.rendered /\ \A c \in CitySet : Total(c) > 0) =>
        LET totals == {Total(c) : c \in CitySet}
        IN  geo.populationFactor = toFixed(Fin(MaxOf(totals), MinOf(totals)), 2)

\* C5: with both parts non-empty and a non-zero baseline average,
\* percentDifference = (fullMoonAvg - nonFullMoonAvg) / nonFullMoonAvg * 100
\* and normalizedRatio = fullMoonAvg / nonFullMoonAvg, the averages being the
\* means of count over the parts; the ten-and-three-day example gives 5, 8,
\* 60 and 1.6.
C5_EffectSize ==
    stats.rendered =>
        LET F == PartTotal(SelectedRecords, TRUE, Len(SelectedRecords))
            f == PartSize(SelectedRecords, TRUE)
            N == PartTotal(SelectedRecords, FALSE, Len(SelectedRecords))
            n == PartSize(SelectedRecords, FALSE)
        IN  /\ (f > 0 /\ n > 0 /\ N > 0) =>
                   /\ stats.stats.fullMoonAvgCrimes = Fin(F, f)
                   /\ stats.stats.nonFullMoonAvgCrimes = Fin(N, n)
                   /\ stats.stats.percentDifference =
                          Fin((F * n - N * f) * 100, N * f)
                   /\ stats.stats.normalizedFullMoonRate = Fin(F * n, N * f)
            /\ SelectedRecords = ExampleData =>
                   /\ stats.stats.nonFullMoonAvgCrimes = Num(5)
                   /\ stats.stats.fullMoonAvgCrimes = Num(8)
                   /\ stats.stats.percentDifference = Num(60)
                   /\ stats.stats.normalizedFullMoonRate = Fin(16, 10)

C5_Witness ==
    /\ stats.rendered
    /\ SelectedRecords = ExampleData
    /\ stats.stats.percentDifference = Num(60)

\* the App summary card of a city
AppCard(city) ==
    IF city = "CHICAGO" THEN app.chicagoStats
    ELSE IF city = "NYC" THEN app.nycStats ELSE app.laStats

GeoCard(city) ==
    IF city = "CHICAGO" THEN geo.chicagoStats
    ELSE IF city = "NYC" THEN geo.nycStats ELSE geo.laStats

AllRendered ==
    /\ app.rendered /\ ~app.loading
    /\ geo.rendered /\ stats.rendered /\ dist.rendered /\ cmp.rendered

\* C6: for each city, every surface that derives the full-moon average, the
\* non-full-moon average, the percent difference or the normalized ratio
\* shows the same value as the others.
C6_SurfacesAgree ==
    AllRendered =>
        /\ \A c \in CitySet :
               /\ AppCard(c).fullMoonAvg = GeoCard(c).fullMoonAvg
               /\ AppCard(c).nonFullMoonAvg = GeoCard(c).nonFullMoonAvg
               /\ AppCard(c).percentDiff = GeoCard(c).effectSize
        /\ cmp.chicagoStats.fullMoonAvgCrimes = geo.chicagoStats.fullMoonAvg
        /\ cmp.chicagoStats.nonFullMoonAvgCrimes = geo.chicagoStats.nonFullMoonAvg
        /\ cmp.nycStats.fullMoonAvgCrimes = geo.nycStats.fullMoonAvg
        /\ cmp.nycStats.nonFullMoonAvgCrimes = geo.nycStats.nonFullMoonAvg
        /\ stats.stats.fullMoonAvgCrimes = GeoCard(selectedCity).fullMoonAvg
        /\ stats.stats.nonFullMoonAvgCrimes = GeoCard(selectedCity).nonFullMoonAvg
        /\ stats.stats.percentDifference = GeoCard(selectedCity).effectSize
        /\ dist.stats.fullMoonAvgCrimes = stats.stats.fullMoonAvgCrimes
        /\ dist.stats.nonFullMoonAvgCrimes = stats.stats.nonFullMoonAvgCrimes
        /\ dist.stats.normalizedFullMoonRate = stats.stats.normalizedFullMoonRate
        /\ app.fullMoonAvg = stats.stats.fullMoonAvgCrimes
        /\ app.nonFullMoonAvg = stats.stats.nonFullMoonAvgCrimes
        /\ selectedCity = "CHICAGO" =>
               cmp.chicagoStats.normalizedFullMoonRate =
                   stats.stats.normalizedFullMoonRate
        /\ selectedCity = "NYC" =>
               cmp.nycStats.normalizedFullMoonRate =
                   stats.stats.normalizedFullMoonRate

\* every surface rendered for LA, whose effect is finite and not zero
C6_Witness ==
    /\ AllRendered
    /\ selectedCity = "LA"
    /\ IsFinite(stats.stats.percentDifference)
    /\ stats.stats.percentDifference # Num(0)
    /\ app.laStats.percentDiff = stats.stats.percentDifference

\* the band table: lower bound (inclusive), upper bound (exclusive), name,
\* emoji
BandTable ==
    << <<0, 125000, "New Moon", "U+1F311">>,
       <<125000, 250000, "Waxing Crescent", "U+1F312">>,
       <<250000, 375000, "First Quarter", "U+1F313">>,
       <<375000, 625000, "Waxing Gibbous", "U+1F314">>,
       <<625000, 750000, "Full Moon", "U+1F315">>,
       <<750000, 875000, "Waning Gibbous", "U+1F316">>,
       <<875000, 950000, "Last Quarter", "U+1F317">>,
       <<950000, 1000000, "Waning Crescent", "U+1F318">> >>

BandsOf(p) == {i \in 1..Len(BandTable) : BandTable[i][1] <= p /\ p < BandTable[i][2]}

InRange(p) == 0 <= p /\ p < 1000000

\* C7: a phase in [0,1) lies in exactly one band of the table, the name
\* classifier returns that band's name and the emoji classifier that band's
\* emoji.
C7_BandTable ==
    InRange(phase) =>
        /\ Cardinality(BandsOf(phase)) = 1
        /\ \A i \in BandsOf(phase) :
               /\ phaseName # NotCalled => phaseName = BandTable[i][3]
               /\ phaseEmoji # NotCalled => phaseEmoji = BandTable[i][4]

\* both classifiers called on 0.95, the lower end of the last band
C7_Witness ==
    /\ phase = 950000
    /\ phaseName = "Waning Crescent"
    /\ phaseEmoji = "U+1F318"

\* C8 as stated: 0.125 is classified First Quarter and 0.124999 Waxing
\* Crescent.
C8_AsStated ==
    /\ (phase = 125000 /\ phaseName # NotCalled) => phaseName = "First Quarter"
    /\ (phase = 124999 /\ phaseName # NotCalled) => phaseName = "Waxing Crescent"

\* C8 amended: 0.125 is classified Waxing Crescent and 0.124999 New Moon.
C8_Boundary ==
    /\ (phase = 125000 /\ phaseName # NotCalled) => phaseName = "Waxing Crescent"
    /\ (phase = 124999 /\ phaseName # NotCalled) => phaseName = "New Moon"

C8_Witness == phase = 125000 /\ phaseName = "Waxing Crescent"

\* C9: for a phase outside [0,1) no category is returned: the call is
\* rejected with InvalidPhaseValue.
C9_OutOfRangeRejected ==
    ~InRange(phase) =>
        /\ phaseName \in {NotCalled, "InvalidPhaseValue"}
        /\ phaseEmoji \in {NotCalled, "InvalidPhaseValue"}

\* C10: a city is shown as significant exactly when its p_value is below
\* 0.05, by StatisticsPanel, GeographicalInsights and the App count alike.
C10_Significance ==
    /\ stats.rendered =>
           (stats.badge = "Statistically Significant"
               <=> data.cities[selectedCity].p_value < 50)
    /\ geo.rendered =>
           \A c \in CitySet :
               /\ GeoCard(c).significance <=> data.cities[c].p_value < 50
               /\ geo.badges[c] = "Significant" <=> data.cities[c].p_value < 50
    /\ (app.rendered /\ ~app.loading) =>
           /\ \A c \in CitySet : app.cityStats[c] <=> data.cities[c].p_value < 50
           /\ app.significantCount =
                  Cardinality({c \in CitySet : data.cities[c].p_value < 50})
    /\ (stats.rendered /\ geo.rendered /\ app.rendered /\ ~app.loading) =>
           /\ (stats.badge = "Statistically Significant")
                  = GeoCard(selectedCity).significance
           /\ app.cityStats[selectedCity] = GeoCard(selectedCity).significance

\* a selected city with p_value exactly 0.05, shown as not significant
C10_Witness ==
    /\ stats.rendered /\ geo.rendered /\ app.rendered
    /\ data.cities[selectedCity].p_value = 50
    /\ stats.badge = "Not Significant"
    /\ ~app.cityStats[selectedCity]

\* C11: the "Statistical Power" insight is 100 when all three cities have
\* p_value < 0.05, and otherwise 33.33 times the number of cities that have:
\* 0, 33.33 or 66.66.
SignificantCities == {c \in CitySet : data.cities[c].p_value < 50}

C11_CombinedSignificance ==
    geo.rendered =>
        geo.statisticalPower =
            IF SignificantCities = CitySet THEN Num(100)
            ELSE Fin(3333 * Cardinality(SignificantCities), 100)

C11_Witness ==
    /\ geo.rendered
    /\ Cardinality(SignificantCities) = 2
    /\ geo.statisticalPower = Fin(6666, 100)

\* the calendar: leap years and the lengths of the months
IsLeapYear(y) == (y % 4 = 0 /\ y % 100 # 0) \/ y % 400 = 0

MonthLength(y, m) ==
    IF m = 2 THEN (IF IsLeapYear(y) THEN 29 ELSE 28)
    ELSE IF m \in {4, 6, 9, 11} THEN 30 ELSE 31

\* the records of the selected city that fall in the month of a bucket
BucketRecords(bucket) ==
    {i \in DOMAIN SelectedRecords :
        monthKeyOf(getFullYear(SelectedRecords[i].date),
                   getMonth(SelectedRecords[i].date) + 1) = bucket.month}

\* the month number of a bucket, read off the two digits of its key
BucketMonth(bucket) == 10 * bucket.month.mm[1] + bucket.month.mm[2]

\* the distinct days of the month on which a bucket has a record
BucketDays(bucket) ==
    {getDate(SelectedRecords[i].date) : i \in BucketRecords(bucket)}

BucketFullMoon(bucket) ==
    {i \in BucketRecords(bucket) : SelectedRecords[i].is_full_moon}

\* the sum of count over a set of records of the selected city
RECURSIVE CountSum(_)
CountSum(I) ==
    IF I = {} THEN 0
    ELSE LET i == CHOOSE j \in I : TRUE
         IN  SelectedRecords[i].count + CountSum(I \ {i})

Buckets == {time.monthlyData[i] : i \in DOMAIN time.monthlyData}

C13_CalendarLength ==
    time.rendered =>
        \A b \in Buckets :
            /\ BucketRecords(b) # {}
            /\ b.daysInMonth = MonthLength(b.month.year, BucketMonth(b))
            /\ b.daysWithData = Cardinality(BucketDays(b))
            /\ b.completeness =
                   JsMul(Fin(Cardinality(BucketDays(b)),
                             MonthLength(b.month.year, BucketMonth(b))),
                         Num(100))

\* February of 2100, which is no leap year, beside a leap February
C13_Witness ==
    /\ time.rendered
    /\ \E b \in Buckets : b.month = monthKeyOf(2100, 2) /\ b.daysInMonth = 28
    /\ \E b \in Buckets : b.month = monthKeyOf(2000, 2) /\ b.daysInMonth = 29

\* C14: a bucket without a full-moon record has fullMoonAverage 0 and the
\* indicators fullMoonCount = 0 and fullMoonCompleteness = 0; a bucket with
\* full-moon records has their mean count and fullMoonCompleteness = 100, so
\* the two kinds of bucket are told apart even when both averages are 0.
C14_FullMoonIndicator ==
    time.rendered =>
        \A b \in Buckets :
            IF BucketFullMoon(b) = {}
            THEN /\ b.fullMoonAverage = Num(0)
                 /\ b.fullMoonCount = 0
                 /\ b.fullMoonCompleteness = 0
            ELSE /\ b.fullMoonAverage =
                        Fin(CountSum(BucketFullMoon(b)),
                            Cardinality(BucketFullMoon(b)))
                 /\ b.fullMoonCount = Cardinality(BucketFullMoon(b))
                 /\ b.fullMoonCompleteness = 100

\* a bucket without full-moon days beside one whose full-moon days all have
\* count 0: both averages are 0, the indicators differ
C14_Witness ==
    /\ time.rendered
    /\ \E b1, b2 \in Buckets :
           /\ BucketFullMoon(b1) = {} /\ BucketFullMoon(b2) # {}
           /\ b1.fullMoonAverage = Num(0) /\ b2.fullMoonAverage = Num(0)
           /\ b1.fullMoonCompleteness # b2.fullMoonCompleteness

\* a JavaScript number: finite, NaN or an infinity (undefined is none)
IsNumber(x) == x.k \in {"fin", "NaN", "Infinity"}

\* C15: for a weekday bucket with records but no full-moon record the percent
\* change of the full-moon average is undefined: not 0, not NaN, no number.
C15_UndefinedChange ==
    time.rendered =>
        \A i \in DOMAIN time.weekdayCards :
            (time.weekdayData.buckets[i].totalDays >= 1
                 /\ time.weekdayData.buckets[i].fullMoonCount = 0)
                => ~IsNumber(time.weekdayCards[i].percentageChange)

\* the records of the selected city that fall on the weekday of bucket i
WeekdayRecords(i) ==
    {j \in DOMAIN SelectedRecords : SelectedRecords[j].date % 7 = i - 1}

RECURSIVE SumTo(_, _)
SumTo(f, n) == IF n = 0 THEN 0 ELSE f[n] + SumTo(f, n - 1)

\* C16: for a series in which every weekday occurs (a full year of daily
\* records), weekday aggregation yields the 7 buckets Sunday..Saturday, each
\* record is counted in the bucket of its weekday and in no other, the
\* totalDays sum to the number of records and the fullMoonCount to the number
\* of full-moon records.
C16_WeekdayBuckets ==
    (time.rendered /\ \A i \in 1..7 : WeekdayRecords(i) # {}) =>
        LET buckets == time.weekdayData.buckets
        IN  /\ time.weekdayData.threw = ""
            /\ Len(buckets) = 7
            /\ \A i \in 1..7 :
                   /\ buckets[i].name = days[i]
                   /\ buckets[i].totalDays = Cardinality(WeekdayRecords(i))
                   /\ buckets[i].fullMoonCount =
                          Cardinality({j \in WeekdayRecords(i) :
                                          SelectedRecords[j].is_full_moon})
            /\ SumTo([i \in 1..7 |-> buckets[i].totalDays], 7)
                   = Len(SelectedRecords)
            /\ SumTo([i \in 1..7 |-> buckets[i].fullMoonCount], 7)
                   = PartSize(SelectedRecords, TRUE)

\* the year 2024, one record a day
C16_Witness ==
    /\ time.rendered
    /\ SelectedRecords = Year2024
    /\ Len(time.weekdayData.buckets) = 7
    /\ time.weekdayData.buckets[2].totalDays = 53

\* C17: the full-moon part and the non-full-moon part of a record set are
\* disjoint and cover it: every record is in exactly one part, the part
\* sizes sum to the number of records, and the part sums (average times
\* size) add up to the total incident count.
C17_Partition ==
    /\ \A i \in DOMAIN SelectedRecords :
           IsFullMoon(SelectedRecords[i]) # IsNotFullMoon(SelectedRecords[i])
    /\ stats.rendered =>
           /\ stats.stats.fullMoonDays + stats.stats.nonFullMoonDays
                  = Len(SelectedRecords)
           /\ (stats.stats.fullMoonDays > 0 /\ stats.stats.nonFullMoonDays > 0)
                  => JsAdd(JsMul(stats.stats.fullMoonAvgCrimes,
                                 Num(stats.stats.fullMoonDays)),
                           JsMul(stats.stats.nonFullMoonAvgCrimes,
                                 Num(stats.stats.nonFullMoonDays)))
                         = Num(Total(selectedCity))
    /\ geo.rendered =>
           \A c \in CitySet :
               (PartSize(data.cities[c].daily_data, TRUE) > 0
                    /\ PartSize(data.cities[c].daily_data, FALSE) > 0)
                   => JsAdd(JsMul(GeoCard(c).fullMoonAvg,
                                  Num(PartSize(data.cities[c].daily_data, TRUE))),
                            JsMul(GeoCard(c).nonFullMoonAvg,
                                  Num(PartSize(data.cities[c].daily_data, FALSE))))
                          = GeoCard(c).totalIncidents

C17_Witness ==
    /\ stats.rendered /\ geo.rendered
    /\ stats.stats.fullMoonDays = 1 /\ stats.stats.nonFullMoonDays = 1
    /\ Total(selectedCity) = 3

\* the averages of a city's two parts, compared on the records themselves:
\* the non-full-moon average is positive, the full-moon average exceeds it
PositiveBaseline(c) ==
    PartTotal(data.cities[c].daily_data, FALSE, Len(data.cities[c].daily_data)) > 0

Elevated(c) ==
    LET records == data.cities[c].daily_data
    IN  /\ PartSize(records, TRUE) > 0
        /\ PartTotal(records, TRUE, Len(records)) * PartSize(records, FALSE)
               > PartTotal(records, FALSE, Len(records)) * PartSize(records, TRUE)

\* C18: with a positive baseline average, percentDifference is positive
\* exactly when the full-moon average exceeds the non-full-moon average, and
\* the StatisticsPanel summary ('+', 'Higher'), the GeographicalInsights
\* effect size ('+', red) and the App impact card ('higher') show the
\* full-moon rate as elevated exactly then.
C18_SignConvention ==
    /\ (stats.rendered /\ PositiveBaseline(selectedCity)) =>
           /\ JsGt(stats.stats.percentDifference, Num(0))
                  <=> Elevated(selectedCity)
           /\ stats.summary.sign = "+" <=> Elevated(selectedCity)
           /\ stats.summary.label = "Higher" <=> Elevated(selectedCity)
           /\ stats.summary.label \in {"Higher", "Lower"}
    /\ geo.rendered =>
           \A c \in CitySet :
               PositiveBaseline(c) =>
                   /\ JsGt(GeoCard(c).effectSize, Num(0)) <=> Elevated(c)
                   /\ geo.effects[c].sign = "+" <=> Elevated(c)
                   /\ geo.effects[c].colour = "text-red-400" <=> Elevated(c)
    /\ (app.rendered /\ ~app.loading) =>
           \A c \in CitySet :
               PositiveBaseline(c) =>
                   /\ JsGt(AppCard(c).percentDiff, Num(0)) <=> Elevated(c)
                   /\ app.cards[c] = "higher" <=> Elevated(c)
                   /\ app.cards[c] \in {"higher", "lower"}

\* an elevated city shown as higher beside a city that is not, shown as lower
C18_Witness ==
    /\ stats.rendered /\ geo.rendered /\ app.rendered
    /\ PositiveBaseline(selectedCity) /\ Elevated(selectedCity)
    /\ stats.summary.label = "Higher"
    /\ app.cards[selectedCity] = "higher"
    /\ \E c \in CitySet :
           /\ PositiveBaseline(c) /\ ~Elevated(c)
           /\ app.cards[c] = "lower"
           /\ geo.effects[c].sign = ""

\* C19: over the hour slots 0..23 the weighting factor
\* sin((hour - 6) * pi / 12) + 1.5 of the hourly profile is largest at hour 0.
C19_PeakAtMidnight ==
    time.rendered =>
        \A i \in DOMAIN time.hourlyData :
            ~JsGt(hourlyFactor(time.hourlyData[i].rawHour), hourlyFactor(0))

\* what an entry of the hourly profile holds when it holds measurements only:
\* the two hour labels and the two rates
HourlyFields == {"hour", "rawHour", "rate", "fullMoonRate"}

\* C20: every entry of the hourly profile carries a marker that it is
\* synthetic: a field beside its hour labels and its two rates.
C20_SyntheticMarker ==
    time.rendered =>
        \A i \in DOMAIN time.hourlyData :
            DOMAIN time.hourlyData[i] \ HourlyFields # {}

----------------------------------------------------------------------------
(* Failure isolation, input validation, purity *)

\* C21: a failure of one aggregate does not prevent the display of the
\* others: when weekday aggregation throws, the tree stays mounted, so the
\* monthly and hourly aggregates of TimeAnalysis and the statistics of the
\* other components are still shown.
C21_FailureIsolation ==
    (time.rendered /\ time.threw # "") =>
        /\ root = "mounted"
        /\ Len(time.hourlyData) = Hours
        /\ stats.rendered /\ dist.rendered /\ geo.rendered

HasDuplicateDate(records) ==
    \E i, j \in DOMAIN records : i # j /\ records[i].date = records[j].date

\* C22: a series with two records of the same date is rejected by temporal
\* aggregation: it produces no month bucket in which a date is counted
\* twice (no bucket at all, the series being rejected with
\* InvalidDateRange).
C22_InvalidDateRange ==
    (time.rendered /\ HasDuplicateDate(SelectedRecords)) =>
        \A b \in Buckets :
            b.totalDays
                = Cardinality({SelectedRecords[i].date : i \in BucketRecords(b)})

----------------------------------------------------------------------------
(* Order of the records *)

Reverse(s) == [i \in 1..Len(s) |-> s[Len(s) + 1 - i]]

\* the records from the k-th on, followed by the first k - 1
Rotate(s, k) == [i \in 1..Len(s) |-> s[((i + k - 2) % Len(s)) + 1]]

\* every permutation of a short series; the reversal and two rotations of a
\* long one
Reorderings(s) ==
    IF Len(s) <= MaxLen
    THEN {[i \in 1..Len(s) |-> s[f[i]]] :
             f \in {g \in [1..Len(s) -> 1..Len(s)] :
                        \A a, b \in 1..Len(s) : g[a] = g[b] => a = b}}
    ELSE {Reverse(s), Rotate(s, 4), Rotate(s, Len(s) \div 2)}

SetOf(s) == {s[i] : i \in DOMAIN s}

\* C24: monthly and weekday aggregation do not depend on the order of the
\* records: for the same records in another order, the set of month buckets
\* (month, average, fullMoonAverage, fullMoonCount, totalDays, completeness)
\* and the seven weekday buckets are the same.
C24_OrderInsensitive ==
    time.rendered =>
        \A r \in Reorderings(SelectedRecords) :
            /\ SetOf(getMonthlyData(r)) = SetOf(time.monthlyData)
            /\ getDayOfWeekData(r) = time.weekdayData

\* a year of records whose reversal yields the twelve month buckets in
\* another order, and seven weekday buckets
C24_Witness ==
    /\ time.rendered
    /\ Len(time.monthlyData) = 12
    /\ Len(time.weekdayData.buckets) = 7
    /\ getMonthlyData(Reverse(SelectedRecords)) # time.monthlyData
    /\ Reverse(SelectedRecords) \in Reorderings(SelectedRecords)

----------------------------------------------------------------------------
(* City selection *)

\* the average of count over one part of the selected city's records
PartAverage(full) ==
    JsDiv(Num(PartTotal(SelectedRecords, full, Len(SelectedRecords))),
          Num(PartSize(SelectedRecords, full)))

\* C25: once the dataset is loaded, and after any city selections and
\* scrolls, every per-city value shown is the one of the selected city's
\* dataset: the App's averages, total and monthly series, StatisticsPanel,
\* DistributionAnalysis, and the monthly, weekday and (memoized) hourly
\* aggregates of TimeAnalysis.
C25_SelectedCity ==
    (~IsNull(data) /\ root = "mounted") =>
        /\ app.city = selectedCity /\ stats.city = selectedCity
        /\ dist.city = selectedCity /\ time.city = selectedCity
        /\ app.fullMoonAvg = PartAverage(TRUE)
        /\ app.nonFullMoonAvg = PartAverage(FALSE)
        /\ app.totalHomicides = Num(Total(selectedCity))
        /\ \A i \in DOMAIN app.monthlyData.averages :
               app.monthlyData.averages[i].average
                   = JsDiv(Num(CountSum(BucketRecords(app.monthlyData.averages[i]))),
                           Num(Cardinality(
                                   BucketRecords(app.monthlyData.averages[i]))))
        /\ SumTo([i \in DOMAIN app.monthlyData.months |->
                     app.monthlyData.months[i].days],
                 Len(app.monthlyData.months)) = Len(SelectedRecords)
        /\ stats.stats.fullMoonDays = PartSize(SelectedRecords, TRUE)
        /\ stats.stats.nonFullMoonDays = PartSize(SelectedRecords, FALSE)
        /\ stats.stats.fullMoonAvgCrimes = PartAverage(TRUE)
        /\ stats.stats.nonFullMoonAvgCrimes = PartAverage(FALSE)
        /\ dist.stats.fullMoonAvgCrimes = PartAverage(TRUE)
        /\ dist.stats.nonFullMoonAvgCrimes = PartAverage(FALSE)
        /\ \A b \in Buckets :
               /\ b.totalDays = Cardinality(BucketRecords(b))
               /\ b.average = JsDiv(Num(CountSum(BucketRecords(b))),
                                    Num(Cardinality(BucketRecords(b))))
        /\ SumTo([i \in DOMAIN time.monthlyData |->
                     time.monthlyData[i].totalDays],
                 Len(time.monthlyData)) = Len(SelectedRecords)
        /\ \A i \in DOMAIN time.weekdayData.buckets :
               time.weekdayData.buckets[i].totalDays
                   = Cardinality(WeekdayRecords(i))
        /\ Len(time.hourlyData) = Hours
        /\ time.hourlyData[1].rate
               = JsMul(JsDiv(Num(Total(selectedCity)),
                             Num(Len(SelectedRecords))),
                       Fin(2, 5))

\* Los Angeles was selected: the values shown are those of its week of
\* seven records, the hourly profile was computed anew
C25_Witness ==
    /\ ~IsNull(data)
    /\ root = "mounted"
    /\ selectedCity = "LA"
    /\ data.cities.CHICAGO.daily_data # data.cities.LA.daily_data
    /\ Total("CHICAGO") # Total("LA")
    /\ stats.city = "LA"
    /\ app.totalHomicides = Num(7)
    /\ ~time.memoHit
    /\ time.hourlyData[1].rate = Fin(2, 5)

----------------------------------------------------------------------------
(* Monthly percent change *)

\* C26: for every month bucket with at least one full-moon record and a
\* positive average, the percent change shown for the month is
\* (fullMoonAverage / average - 1) * 100; it is -100 when all full-moon
\* records of the month have count 0.
C26_MonthlyChange ==
    time.rendered =>
        \A i \in DOMAIN time.monthlyData :
            (/\ time.monthlyData[i].fullMoonCount >= 1
             /\ JsGt(time.monthlyData[i].average, Num(0))) =>
                /\ time.monthlyCards[i].fullMoonShown
                /\ time.monthlyCards[i].percentageChange
                       = JsMul(JsSub(JsDiv(time.monthlyData[i].fullMoonAverage,
                                           time.monthlyData[i].average),
                                     Num(1)),
                               Num(100))

----------------------------------------------------------------------------
(* Loading *)

\* C27: data is null at first; while it is null only the loading view is
\* rendered and no statistic is computed; data leaves null only by the step
\* of a successful fetch and never returns to null; a failed fetch is not
\* retried, so data stays null and the loading view stays for ever.
C27_Loading ==
    /\ IsNull(data) /\ fetchPc = "fetching"
    /\ [](IsNull(data) =>
             /\ app.loading
             /\ ~geo.rendered /\ ~stats.rendered
             /\ ~dist.rendered /\ ~time.rendered)
    /\ [](IsNull(data) <=> fetchPc # "done")
    /\ [][(IsNull(data) /\ ~IsNull(data')) =>
              (fetchPc = "fetching" /\ fetchPc' = "done")]_vars
    /\ [][~IsNull(data) => data' = data /\ fetchPc' = "done"]_vars
    /\ [][fetchPc = "failed" => fetchPc' = "failed" /\ IsNull(data')]_vars

\* the fetch has failed and the page was scrolled since: still loading
C27_Witness ==
    /\ fetchPc = "failed"
    /\ IsNull(data)
    /\ app.loading
    /\ scrollProgress = Num(1)

----------------------------------------------------------------------------
(* Scroll progress *)

\* C28: after every scroll event, for every scroll offset and page height
\* (a page of zero scrollable height and a negative offset included),
\* scrollProgress lies in [0,1] and the moon phase shown is one of the eight
\* phase names, the one at index min(floor(progress * 8), 7).
C28_ScrollProgress ==
    /\ scrollProgress.k = "fin"
    /\ ~JsLt(scrollProgress, Num(0))
    /\ ~JsGt(scrollProgress, Num(1))
    /\ currentPhase # NotCalled =>
           /\ currentPhase \in SetOf(phases)
           /\ \E i \in 0..7 :
                  /\ MathMin(MathFloor(JsMul(scrollProgress, Num(8))), Num(7))
                         = Num(i)
                  /\ currentPhase = phases[i + 1]

----------------------------------------------------------------------------
(* Most pronounced effect *)

\* a >= b
JsGe(a, b) == a.k # "NaN" /\ b.k # "NaN" /\ ~JsLt(a, b)

\* the percent difference of a city as its impact card computes it
CardPercentDiff(c) ==
    IF c = "CHICAGO" THEN app.chicagoStats.percentDiff
    ELSE IF c = "NYC" THEN app.nycStats.percentDiff
    ELSE app.laStats.percentDiff

CityIndex(c) == CHOOSE i \in 1..Len(Cities) : Cities[i] = c

\* C29: the city named in the "Most pronounced effect" sentence has an
\* absolute percent difference greater than or equal to that of each other
\* city, direction and magnitude are those of the named city, and of cities
\* that tie the later one in the order CHICAGO, NYC, LA is named.
C29_MostPronounced ==
    (app.rendered /\ ~app.loading) =>
        /\ \A c \in CitySet :
               /\ JsGe(MathAbs(CardPercentDiff(app.mostPronounced.city)),
                       MathAbs(CardPercentDiff(c)))
               /\ MathAbs(CardPercentDiff(c))
                      = MathAbs(CardPercentDiff(app.mostPronounced.city))
                  => CityIndex(c) <= CityIndex(app.mostPronounced.city)
        /\ app.mostPronounced.direction
               = (IF JsGt(CardPercentDiff(app.mostPronounced.city), Num(0))
                  THEN "positive" ELSE "negative")
        /\ app.mostPronounced.magnitude
               = toFixed(MathAbs(CardPercentDiff(app.mostPronounced.city)), 1)

----------------------------------------------------------------------------
(* The two monthly aggregations *)

\* the distinct year-months of the selected city's records
YearMonths ==
    {<<CivilFromDays(SelectedRecords[i].date).year,
       CivilFromDays(SelectedRecords[i].date).month>> :
        i \in DOMAIN SelectedRecords}

\* C30: on the same records the monthly averages computed inline by App and
\* those of TimeAnalysis.getMonthlyData agree for every month key, both have
\* exactly one bucket for each distinct year-month of the data, and in both
\* the record counts of the buckets sum to the number of records.
C30_MonthlyAgree ==
    (app.rendered /\ ~app.loading /\ time.rendered) =>
        /\ Len(app.monthlyData.averages) = Cardinality(YearMonths)
        /\ Len(time.monthlyData) = Cardinality(YearMonths)
        /\ {monthKeySplit(app.monthlyData.averages[i].month) :
                i \in DOMAIN app.monthlyData.averages} = YearMonths
        /\ {monthKeySplit(time.monthlyData[i].month) :
                i \in DOMAIN time.monthlyData} = YearMonths
        /\ \A i \in DOMAIN app.monthlyData.averages :
               \A j \in DOMAIN time.monthlyData :
                   app.monthlyData.averages[i].month = time.monthlyData[j].month
                       => app.monthlyData.averages[i].average
                              = time.monthlyData[j].average
        /\ SumTo([i \in DOMAIN app.monthlyData.months |->
                     app.monthlyData.months[i].days],
                 Len(app.monthlyData.months)) = Len(SelectedRecords)
        /\ SumTo([i \in DOMAIN time.monthlyData |->
                     time.monthlyData[i].totalDays],
                 Len(time.monthlyData)) = Len(SelectedRecords)

\* a year of daily records: twelve months in both, February with 29 records
C30_Witness ==
    /\ app.rendered /\ ~app.loading /\ time.rendered
    /\ Len(SelectedRecords) = 366
    /\ Len(app.monthlyData.averages) = 12
    /\ Len(time.monthlyData) = 12
    /\ app.monthlyData.months[2].days = 29
    /\ time.monthlyData[2].totalDays = 29
    /\ app.monthlyData.averages[2].average = time.monthlyData[2].average
    /\ JsGt(time.monthlyData[2].average, Num(0))


====
